---- MODULE Spec2Model ----
(***************************************************************************)
(* Parent selection, crossover and the repair loop of the NSGA-II sampler  *)
(* (optuna/samplers/_nsga2/crossover.py).                                  *)
(*                                                                         *)
(* One call of crossover() is a small state machine: the partition of the  *)
(* search space, then iterations of { _select_parents, _try_crossover,     *)
(* _is_contained } until a child is accepted or an exception leaves the    *)
(* call.                                                                   *)
(***************************************************************************)
EXTENDS Integers, Sequences, FiniteSets, TLC

(***************************************************************************)
(* Bounds of the model.                                                    *)
(***************************************************************************)
MaxPop == 3
MaxParams == 2
MaxIters == 2
MaxSeed == 7

RawMax == IF MaxPop > 4 THEN MaxPop ELSE 4

Min(a, b) == IF a < b THEN a ELSE b

Range(s) == {s[i] : i \in DOMAIN s}

(***************************************************************************)
(* State.                                                                  *)
(***************************************************************************)
VARIABLES
    cfg,                       \* the arguments of the call of crossover()
    pc,                        \* "idle", "select", "cross", "check", "done", "error"
    iters,                     \* iterations of the repair loop entered so far
    parents,                   \* _select_parents: the parents selected so far
    tour,                      \* _select_parent: the tournament of the last call, while
                               \* _select_parents runs
    child_params,              \* crossover(): child_params
    categorical_search_space,  \* crossover(): categorical_search_space
    numerical_search_space,    \* crossover(): numerical_search_space
    numerical_transform,       \* crossover(): numerical_transform
    rng,                       \* the state of the generator passed to the call
    np_random,                 \* the state of numpy's process-wide generator
    calls,                     \* calls made so far by this call of crossover()
    raised,                    \* the exception that left the call, if any
    run,                       \* 1 for the first call, 2 for the repeated one
    first                      \* the outcome of the first call

vars == <<cfg, pc, iters, parents, tour, child_params, categorical_search_space,
          numerical_search_space, numerical_transform, rng, np_random, calls,
          raised, run, first>>

(***************************************************************************)
(* Python values.  A value carries its Python type: numpy's array          *)
(* constructor and tuple.index both depend on it.  PyStr(n) with n < 10 is *)
(* the string of the digit n, PyStr(97) is "a".  A float is held in fixed  *)
(* point, in halves: PyFloat(2) is 1.0 and PyFloat(4) is 2.0.              *)
(***************************************************************************)
PyInt(n) == [t |-> "int", v |-> n]
PyStr(c) == [t |-> "str", v |-> c]
PyFloat(x) == [t |-> "float", v |-> x]

(***************************************************************************)
(* Distributions.                                                          *)
(***************************************************************************)
_NUMERICAL_DISTRIBUTIONS ==
    { "UniformDistribution",
      "LogUniformDistribution",
      "DiscreteUniformDistribution",
      "FloatDistribution",
      "IntUniformDistribution",
      "IntLogUniformDistribution",
      "IntDistribution" }

CategoricalDistribution(choices) ==
    [kind |-> "CategoricalDistribution", choices |-> choices,
     low |-> 0, high |-> 0, log |-> FALSE]

NumericalDistribution(kind, low, high, log) ==
    [kind |-> kind, choices |-> <<>>, low |-> low, high |-> high, log |-> log]

isLogKind(kind) == kind \in {"LogUniformDistribution", "IntLogUniformDistribution"}

\* Every kind of distribution, over the interval [1.0, 2.0].
AllDistributions ==
    {CategoricalDistribution(<<PyInt(1), PyInt(2)>>)}
    \cup {NumericalDistribution(k, 2, 4, isLogKind(k)) : k \in _NUMERICAL_DISTRIBUTIONS}

\* The distributions of the search spaces crossover() is run on.
CatInt == CategoricalDistribution(<<PyInt(1), PyInt(2)>>)
CatMixed == CategoricalDistribution(<<PyStr(97), PyInt(1)>>)
FloatLog == NumericalDistribution("FloatDistribution", 2, 4, TRUE)

RunDistributions == {CatInt, CatMixed, FloatLog}

Keys == <<"p1", "p2", "p3", "p4", "p5">>

\* A search space is an insertion-ordered dict: a sequence of items with
\* distinct keys.
SearchSpaces(dists) ==
    UNION { { [i \in 1..n |-> [key |-> Keys[i], dist |-> f[i]]] : f \in [1..n -> dists] }
            : n \in 0..MaxParams }

DictKeys(d) == [i \in DOMAIN d |-> d[i].key]

DictHas(d, k) == \E i \in DOMAIN d : d[i].key = k

DictGet(d, k) == d[CHOOSE i \in DOMAIN d : d[i].key = k]

\* d[item.key] = item  (assignment keeps the position of an existing key).
DictSet(d, item) ==
    IF DictHas(d, item.key)
    THEN [i \in DOMAIN d |-> IF d[i].key = item.key THEN item ELSE d[i]]
    ELSE Append(d, item)

RECURSIVE DictUpdate(_, _)
DictUpdate(d, items) ==
    IF items = <<>> THEN d
    ELSE DictUpdate(DictSet(d, Head(items)), Tail(items))

(***************************************************************************)
(* Distribution.to_internal_repr and Distribution._contains.               *)
(* A categorical value is represented by its index in the choices          *)
(* (tuple.index, which raises ValueError for a value that is no choice); a *)
(* numerical value by itself.                                              *)
(***************************************************************************)
ValueError == [raised |-> TRUE, v |-> 0]

Returned(x) == [raised |-> FALSE, v |-> x]

to_internal_repr(dist, value) ==
    IF dist.kind = "CategoricalDistribution"
    THEN IF \E i \in DOMAIN dist.choices : dist.choices[i] = value
         THEN Returned((CHOOSE i \in DOMAIN dist.choices :
                          /\ dist.choices[i] = value
                          /\ \A j \in 1..(i - 1) : dist.choices[j] # value) - 1)
         ELSE ValueError
    ELSE Returned(value.v)

_contains(dist, internal) ==
    IF dist.kind = "CategoricalDistribution"
    THEN 0 <= internal /\ internal < Len(dist.choices)
    ELSE dist.low <= internal /\ internal <= dist.high

(***************************************************************************)
(* _is_contained: the parameters are visited in the order of the child's   *)
(* own keys; the first one that is not contained ends the visit with       *)
(* False, a value to_internal_repr rejects ends it with ValueError.        *)
(***************************************************************************)
RECURSIVE _is_contained(_, _)
_is_contained(params, search_space) ==
    IF params = <<>> THEN "True"
    ELSE LET param == Head(params).value
             param_distribution == DictGet(search_space, Head(params).key).dist
             internal == to_internal_repr(param_distribution, param)
         IN  IF internal.raised THEN "ValueError"
             ELSE IF ~_contains(param_distribution, internal.v) THEN "False"
             ELSE _is_contained(Tail(params), search_space)

(***************************************************************************)
(* The partition of the search space at the start of crossover().          *)
(***************************************************************************)
isinstance_numerical(dist) == dist.kind \in _NUMERICAL_DISTRIBUTIONS

\* Variant: the else of line 108 dropped.
RECURSIVE partition_overlapping(_, _, _)
partition_overlapping(items, numerical, categorical) ==
    IF items = <<>> THEN [numerical |-> numerical, categorical |-> categorical]
    ELSE IF isinstance_numerical(Head(items).dist)
         THEN partition_overlapping(Tail(items), DictSet(numerical, Head(items)),
                                    DictSet(categorical, Head(items)))
         ELSE partition_overlapping(Tail(items), numerical,
                                    DictSet(categorical, Head(items)))

RECURSIVE partition(_, _, _)
partition(items, numerical, categorical) ==
    IF items = <<>> THEN [numerical |-> numerical, categorical |-> categorical]
    ELSE IF isinstance_numerical(Head(items).dist)
         THEN partition(Tail(items), DictSet(numerical, Head(items)), categorical)
         ELSE partition(Tail(items), numerical, DictSet(categorical, Head(items)))

(***************************************************************************)
(* _SearchSpaceTransform of a numerical search space: one real coordinate  *)
(* per parameter, the logarithm (base 2) of the value where the            *)
(* distribution is log-scaled.  untransform inverts it and does not clip:  *)
(* a coordinate outside the encoded bounds decodes to a value outside the  *)
(* distribution.                                                           *)
(***************************************************************************)
None == [is_none |-> TRUE, search_space |-> <<>>]

RECURSIVE Pow2(_)
Pow2(n) == IF n <= 0 THEN 1 ELSE 2 * Pow2(n - 1)

\* log2 of the fixed-point value x (x halves): 1 -> -1, 2 -> 0, 4 -> 1, 8 -> 2.
Log2(x) == CHOOSE e \in -1..8 : Pow2(e + 1) = x

_SearchSpaceTransform(numerical) ==
    [is_none |-> FALSE, search_space |-> numerical]

\* Variant: the transform built whatever the numerical subspace.
always_transform(numerical) == _SearchSpaceTransform(numerical)

\* crossover(), lines 111-113.
make_transform(numerical) ==
    IF Len(numerical) # 0
    THEN _SearchSpaceTransform(numerical)
    ELSE None

transform_param(dist, value) == IF dist.log THEN Log2(value.v) ELSE value.v

untransform_param(dist, x) == IF dist.log THEN PyFloat(Pow2(x + 1)) ELSE PyFloat(x)

\* params: a function from the keys of the transform's search space to values.
transform(t, params) ==
    [j \in DOMAIN t.search_space |->
        transform_param(t.search_space[j].dist, params[t.search_space[j].key])]

untransform(t, vector) ==
    [j \in DOMAIN t.search_space |->
        [key |-> t.search_space[j].key,
         value |-> untransform_param(t.search_space[j].dist, vector[j])]]

(***************************************************************************)
(* Trials.  A trial is identified by its number.  Its parameters are       *)
(* values of the search space's distributions and its objective values a   *)
(* pair of 0/1 values, both fixed by the number.                           *)
(***************************************************************************)
trial_param(t, j, dist) ==
    IF dist.kind = "CategoricalDistribution"
    THEN dist.choices[((t + j) % Len(dist.choices)) + 1]
    ELSE PyFloat(IF (t + j) % 2 = 0 THEN dist.low ELSE dist.high)

\* FrozenTrial.params of trial t under search_space.
trial_params(t, search_space) ==
    [k \in Range(DictKeys(search_space)) |->
        LET j == CHOOSE i \in DOMAIN search_space : search_space[i].key = k
        IN  trial_param(t, j, search_space[j].dist)]

trial_values(t) == <<t % 2, (t \div 2) % 2>>

MINIMIZE == "MINIMIZE"
MAXIMIZE == "MAXIMIZE"

\* The study directions the calls are made with.
Directions == {<<MINIMIZE, MINIMIZE>>, <<MINIMIZE, MAXIMIZE>>}

\* Pareto domination of trial0 over trial1 under the directions.
normalized(v, d) == IF d = MINIMIZE THEN v ELSE 0 - v

dominates(trial0, trial1, directions) ==
    LET v0 == [i \in DOMAIN directions |-> normalized(trial_values(trial0)[i], directions[i])]
        v1 == [i \in DOMAIN directions |-> normalized(trial_values(trial1)[i], directions[i])]
    IN  /\ \A i \in DOMAIN directions : v0[i] <= v1[i]
        /\ \E i \in DOMAIN directions : v0[i] < v1[i]


(***************************************************************************)
(* The random generator.  Its state is a number; a draw reads the state    *)
(* and advances it.  The stream of a generator whose seed the caller does  *)
(* not know is any stream.                                                 *)
(***************************************************************************)
rng_next(g) == (5 * g + 3) % (MaxSeed + 1)

rng_output(g) == (g \div 2) % RawMax

RECURSIVE rng_skip(_, _)
rng_skip(g, n) == IF n = 0 THEN g ELSE rng_skip(rng_next(g), n - 1)

\* Variant: the draws taken from numpy's process-wide generator.
rng_draws_global(g, ranges, seeded) ==
    IF seeded
    THEN {[i \in DOMAIN ranges |-> rng_output(rng_skip(np_random, i - 1)) % ranges[i]]}
    ELSE {v \in [DOMAIN ranges -> 0..(RawMax - 1)] : \A i \in DOMAIN ranges : v[i] < ranges[i]}

\* The next draws of generator g, the i-th one below ranges[i]: the
\* generator's stream if it is seeded, any draws if it is not.
rng_draws(g, ranges, seeded) ==
    IF seeded
    THEN {[i \in DOMAIN ranges |-> rng_output(rng_skip(g, i - 1)) % ranges[i]]}
    ELSE {v \in [DOMAIN ranges -> 0..(RawMax - 1)] : \A i \in DOMAIN ranges : v[i] < ranges[i]}

\* rng.choice(n) and rng.rand() of a draw; rand is in halves: 0.0 or 0.5.
choice(raw, n) == raw % n

rand(raw) == raw % 2

\* The swapping probabilities of the calls, in halves: 0.0, 0.5 and 1.0.
SwappingProbs == 0..2

(***************************************************************************)
(* numpy.array of a matrix of Python values, without dtype: the common     *)
(* type of the elements.  Integers beside a string become their decimal    *)
(* strings.                                                                *)
(***************************************************************************)
np_str(value) == IF value.t = "int" THEN PyStr(value.v) ELSE value

np_array(rows) ==
    IF /\ \E i \in DOMAIN rows : \E j \in DOMAIN rows[i] : rows[i][j].t = "str"
       /\ \E i \in DOMAIN rows : \E j \in DOMAIN rows[i] : rows[i][j].t = "int"
    THEN [i \in DOMAIN rows |-> [j \in DOMAIN rows[i] |-> np_str(rows[i][j])]]
    ELSE rows

(***************************************************************************)
(* Crossover operators.  draws holds one raw draw per column.              *)
(***************************************************************************)
\* UniformCrossover.crossover: per column, the second parent's value when
\* the draw is below the swapping probability, else the first parent's.
UniformCrossover(swapping_prob, parents_params, draws) ==
    [j \in DOMAIN draws |->
        IF rand(draws[j]) < swapping_prob THEN parents_params[2][j]
        ELSE parents_params[1][j]]

ColMin(m, j) == CHOOSE x \in {m[i][j] : i \in DOMAIN m} : \A i \in DOMAIN m : x <= m[i][j]
ColMax(m, j) == CHOOSE x \in {m[i][j] : i \in DOMAIN m} : \A i \in DOMAIN m : x >= m[i][j]

\* The configured operators: uniform, a blend over the parents' box widened
\* by one, a three-parent reflection, and one that leaves the bounds on
\* every call.
Operators ==
    { [name |-> "uniform", n_parents |-> 2],
      [name |-> "blend", n_parents |-> 2],
      [name |-> "reflect", n_parents |-> 3],
      [name |-> "outside", n_parents |-> 2] }

uses_rng(op) == op.name \in {"uniform", "blend"}

\* crossover.crossover(parents_numerical_params, rng, study, numerical_search_space)
operator_crossover(op, m, draws, numerical) ==
    [j \in DOMAIN numerical |->
        CASE op.name = "uniform" ->
                UniformCrossover(1, m, draws)[j]
          [] op.name = "blend" ->
                ColMin(m, j) - 1 + choice(draws[j], ColMax(m, j) - ColMin(m, j) + 3)
          [] op.name = "reflect" ->
                m[1][j] + m[2][j] - m[3][j]
          [] OTHER ->
                LET d == numerical[j].dist
                IN  transform_param(d, PyFloat(d.high)) + 1]


\* parent_population: the trials 1..n in the order of their numbers.
Populations == {[i \in 1..n |-> i] : n \in 0..MaxPop}

Configs(dists, probs, seeded, seeds) ==
    [crossover : Operators,
     parent_population : Populations,
     search_space : SearchSpaces(dists),
     swapping_prob : probs,
     directions : Directions,
     seeded : {seeded},
     seed : seeds]

NoTour == [candidate0 |-> 0, candidate1 |-> 0, parent |-> 0]
NoCalls == [select_parents |-> 0, categorical |-> 0, numerical |-> 0,
            transform_built |-> 0, transform |-> 0, untransform |-> 0]
NoOutcome == [pc |-> "idle", child_params |-> <<>>, iters |-> 0, rng |-> 0,
              raised |-> "", parents |-> <<>>]

\* The locals of a call of crossover() before its first statement.
Entry ==
    /\ pc = "idle"
    /\ iters = 0
    /\ parents = <<>>
    /\ tour = NoTour
    /\ child_params = <<>>
    /\ categorical_search_space = <<>>
    /\ numerical_search_space = <<>>
    /\ numerical_transform = None
    /\ rng = cfg.seed
    /\ calls = NoCalls
    /\ raised = ""

InitWith(configs) ==
    /\ cfg \in configs
    /\ Entry
    /\ np_random = 0
    /\ run = 1
    /\ first = NoOutcome

\* Calls with a generator whose state the caller does not know.  Any draws
\* being possible, a swapping probability strictly between 0 and 1 makes
\* every outcome of the uniform crossover possible, those of the
\* probabilities 0 and 1 among them.
Init == InitWith(Configs(RunDistributions, {1}, FALSE, {0}))

params(trial) == trial_params(trial, cfg.search_space)

(***************************************************************************)
(* crossover(), lines 103-113: the partition and the transform.            *)
(***************************************************************************)
Start ==
    /\ pc = "idle"
    /\ LET p == partition(cfg.search_space, <<>>, <<>>)
       IN  /\ numerical_search_space' = p.numerical
           /\ categorical_search_space' = p.categorical
           /\ numerical_transform' = make_transform(p.numerical)
           /\ calls' = [calls EXCEPT !.transform_built =
                            IF make_transform(p.numerical).is_none THEN 0 ELSE 1]
    /\ pc' = "select"
    /\ iters' = 1
    /\ UNCHANGED <<cfg, parents, tour, child_params, rng, np_random, raised, run, first>>

(***************************************************************************)
(* _select_parents and _select_parent.                                     *)
(***************************************************************************)
\* Variant: no more selections than the population has trials.
n_selections_capped(crossover, parent_population) ==
    Min(crossover.n_parents, Len(parent_population))

\* range(crossover.n_parents)
n_selections(crossover, parent_population) == crossover.n_parents

\* Variant: the trials already selected stay in the pool.
unselected_all(parent_population, selected) == parent_population

\* [t for t in parent_population if t not in parents]
unselected(parent_population, selected) ==
    SelectSeq(parent_population, LAMBDA t : t \notin Range(selected))

\* Variant: the two returns exchanged.
winner_swapped(candidate0, candidate1, directions) ==
    IF dominates(candidate0, candidate1, directions) THEN candidate1 ELSE candidate0

\* _select_parent, lines 163-166.
winner(candidate0, candidate1, directions) ==
    IF dominates(candidate0, candidate1, directions) THEN candidate0 ELSE candidate1

\* _select_parent on a non-empty population, the two draws given.
_select_parent(parent_population, draws, directions) ==
    LET population_size == Len(parent_population)
        candidate0 == parent_population[choice(draws[1], population_size) + 1]
        candidate1 == parent_population[choice(draws[2], population_size) + 1]
    IN  [candidate0 |-> candidate0, candidate1 |-> candidate1,
         parent |-> winner(candidate0, candidate1, directions)]

\* One pass of the loop of _select_parents; the last pass returns the list.
SelectParent ==
    /\ pc = "select"
    /\ Len(parents) < n_selections(cfg.crossover, cfg.parent_population)
    /\ LET pool == unselected(cfg.parent_population, parents)
       IN  /\ Len(pool) > 0
           /\ \E draws \in rng_draws(rng, <<Len(pool), Len(pool)>>, cfg.seeded) :
                LET t == _select_parent(pool, draws, cfg.directions)
                    returns == Len(parents) + 1 =
                                 n_selections(cfg.crossover, cfg.parent_population)
                IN  /\ tour' = t
                    /\ parents' = Append(parents, t.parent)
                    /\ pc' = IF returns THEN "cross" ELSE "select"
                    /\ calls' = [calls EXCEPT !.select_parents =
                                     IF Len(parents) = 0 THEN @ + 1 ELSE @]
           /\ rng' = rng_skip(rng, 2)
    /\ UNCHANGED <<cfg, iters, child_params, categorical_search_space,
                   numerical_search_space, numerical_transform, np_random, raised,
                   run, first>>

\* rng.choice(0) raises ValueError: no trial is left to draw from.
SelectParentRaises ==
    /\ pc = "select"
    /\ Len(parents) < n_selections(cfg.crossover, cfg.parent_population)
    /\ Len(unselected(cfg.parent_population, parents)) = 0
    /\ pc' = "error"
    /\ raised' = "ValueError: rng.choice"
    /\ calls' = [calls EXCEPT !.select_parents = IF Len(parents) = 0 THEN @ + 1 ELSE @]
    /\ UNCHANGED <<cfg, iters, parents, tour, child_params, categorical_search_space,
                   numerical_search_space, numerical_transform, rng, np_random,
                   run, first>>


(***************************************************************************)
(* _try_crossover.                                                         *)
(***************************************************************************)
\* The draws one call consumes, as the ranges they are taken from: a
\* rand() per categorical column, then one draw per numerical column if the
\* operator draws.
n_categorical_draws(categorical) == Len(categorical)

categorical_draws(categorical) == [j \in DOMAIN categorical |-> 2]

numerical_draws(crossover, numerical, t) ==
    IF t.is_none \/ ~uses_rng(crossover) THEN <<>>
    ELSE [j \in DOMAIN numerical |->
            IF crossover.name = "uniform" THEN 2 ELSE RawMax]

\* Lines 50-66: the categorical part of the child, as dict items.
child_categorical_params(selected, swapping_prob, categorical, draws) ==
    LET parents_categorical_params ==
            np_array([r \in 1..2 |->
                        LET parent == IF r = 1 THEN selected[1] ELSE selected[Len(selected)]
                        IN  [j \in DOMAIN categorical |-> params(parent)[categorical[j].key]]])
        child_categorical_array ==
            UniformCrossover(swapping_prob, parents_categorical_params,
                             [j \in DOMAIN categorical |-> draws[j]])
    IN  [j \in DOMAIN categorical |->
            [key |-> categorical[j].key, value |-> child_categorical_array[j]]]

\* Lines 72-87: the numerical part of the child, as dict items.
child_numerical_params(selected, crossover, numerical, t, draws) ==
    LET parents_numerical_params ==
            [r \in DOMAIN selected |->
                transform(t, [k \in Range(DictKeys(numerical)) |-> params(selected[r])[k]])]
        child_numerical_array ==
            operator_crossover(crossover, parents_numerical_params,
                               [j \in DOMAIN numerical |->
                                   IF uses_rng(crossover) THEN draws[j] ELSE 0],
                               numerical)
    IN  untransform(t, child_numerical_array)

\* Variant: the numerical part replaces the child instead of updating it.
_try_crossover_numerical_only(selected, crossover, swapping_prob, categorical, numerical, t, draws) ==
    IF t.is_none
    THEN IF Len(categorical) > 0
         THEN DictUpdate(<<>>, child_categorical_params(selected, swapping_prob,
                                                        categorical, draws))
         ELSE <<>>
    ELSE child_numerical_params(selected, crossover, numerical, t,
               SubSeq(draws, n_categorical_draws(categorical) + 1, Len(draws)))

_try_crossover(selected, crossover, swapping_prob, categorical, numerical, t, draws) ==
    LET empty == <<>>
        with_categorical ==
            IF Len(categorical) > 0
            THEN DictUpdate(empty, child_categorical_params(selected, swapping_prob,
                                                            categorical, draws))
            ELSE empty
    IN  IF t.is_none THEN with_categorical
        ELSE DictUpdate(with_categorical,
                 child_numerical_params(selected, crossover, numerical, t,
                     SubSeq(draws, n_categorical_draws(categorical) + 1, Len(draws))))

TryCrossover ==
    /\ pc = "cross"
    /\ LET ranges == categorical_draws(categorical_search_space)
                      \o numerical_draws(cfg.crossover, numerical_search_space,
                                         numerical_transform)
       IN  /\ \E draws \in rng_draws(rng, ranges, cfg.seeded) :
                child_params' = _try_crossover(parents, cfg.crossover, cfg.swapping_prob,
                                               categorical_search_space,
                                               numerical_search_space,
                                               numerical_transform, draws)
           /\ rng' = rng_skip(rng, Len(ranges))
    /\ calls' = [calls EXCEPT
                    !.categorical = IF Len(categorical_search_space) > 0 THEN @ + 1 ELSE @,
                    !.numerical = IF numerical_transform.is_none THEN @ ELSE @ + 1,
                    !.transform = IF numerical_transform.is_none THEN @ ELSE @ + Len(parents),
                    !.untransform = IF numerical_transform.is_none THEN @ ELSE @ + 1]
    /\ pc' = "check"
    /\ tour' = NoTour
    /\ UNCHANGED <<cfg, iters, parents, categorical_search_space,
                   numerical_search_space, numerical_transform, np_random, raised,
                   run, first>>

(***************************************************************************)
(* crossover(), lines 128-131: the containment check and the loop.         *)
(***************************************************************************)
\* Variant: the loop of _is_contained returns after its first parameter.
_is_contained_first(child, search_space) ==
    IF child = <<>> THEN "True"
    ELSE _is_contained(<<Head(child)>>, search_space)

contained(child, search_space) == _is_contained(child, search_space)

\* The child is contained: break, return child_params.
Accept ==
    /\ pc = "check"
    /\ contained(child_params, cfg.search_space) = "True"
    /\ pc' = "done"
    /\ UNCHANGED <<cfg, iters, parents, tour, child_params, categorical_search_space,
                   numerical_search_space, numerical_transform, rng, np_random, calls,
                   raised, run, first>>

\* The child is not contained: the next iteration, with a new selection.
Reject ==
    /\ pc = "check"
    /\ contained(child_params, cfg.search_space) = "False"
    /\ iters < MaxIters
    /\ pc' = "select"
    /\ iters' = iters + 1
    /\ parents' = <<>>
    /\ UNCHANGED <<cfg, tour, child_params, categorical_search_space,
                   numerical_search_space, numerical_transform, rng, np_random, calls,
                   raised, run, first>>

\* to_internal_repr raises inside _is_contained: the exception leaves the call.
ContainedRaises ==
    /\ pc = "check"
    /\ contained(child_params, cfg.search_space) = "ValueError"
    /\ pc' = "error"
    /\ raised' = "ValueError: to_internal_repr"
    /\ UNCHANGED <<cfg, iters, parents, tour, child_params, categorical_search_space,
                   numerical_search_space, numerical_transform, rng, np_random, calls,
                   run, first>>

Next ==
    \/ Start
    \/ SelectParent
    \/ SelectParentRaises
    \/ TryCrossover
    \/ Accept
    \/ Reject
    \/ ContainedRaises

Spec == Init /\ [][Next]_vars


(***************************************************************************)
(* The same call made twice by a caller that seeds the generator: when the *)
(* first call has ended, the caller restores the generator to the seed and *)
(* calls crossover() again with the same arguments.  numpy's process-wide  *)
(* generator is not the caller's: it may have moved in between.            *)
(***************************************************************************)
InitSeeded == InitWith(Configs(RunDistributions, SwappingProbs, TRUE, 0..MaxSeed))

Rerun ==
    /\ run = 1
    /\ pc \in {"done", "error"}
    /\ first' = [pc |-> pc, child_params |-> child_params, iters |-> iters,
                 rng |-> rng, raised |-> raised, parents |-> parents]
    /\ run' = 2
    /\ np_random' \in {np_random, rng_next(np_random)}
    /\ pc' = "idle"
    /\ iters' = 0
    /\ parents' = <<>>
    /\ tour' = NoTour
    /\ child_params' = <<>>
    /\ categorical_search_space' = <<>>
    /\ numerical_search_space' = <<>>
    /\ numerical_transform' = None
    /\ rng' = cfg.seed
    /\ calls' = NoCalls
    /\ raised' = ""
    /\ UNCHANGED cfg

NextSeeded ==
    \/ Start
    \/ SelectParent
    \/ SelectParentRaises
    \/ TryCrossover
    \/ Accept
    \/ Reject
    \/ ContainedRaises
    \/ Rerun

SpecSeeded == InitSeeded /\ [][NextSeeded]_vars

(***************************************************************************)
(* The partition alone, on search spaces of every kind of distribution.    *)
(***************************************************************************)
InitPartition ==
    InitWith([crossover : {[name |-> "uniform", n_parents |-> 2]},
              parent_population : {<<>>},
              search_space : SearchSpaces(AllDistributions),
              swapping_prob : {0},
              directions : {<<MINIMIZE, MINIMIZE>>},
              seeded : {FALSE},
              seed : {0}])

NextPartition == Start

SpecPartition == InitPartition /\ [][NextPartition]_vars


(***************************************************************************)
(* Properties.                                                             *)
(***************************************************************************)
Population == cfg.parent_population
NParents == cfg.crossover.n_parents
ValidSelection == NParents <= Len(Population)

\* The containment predicate of a distribution, on Python values.
Satisfies(dist, value) ==
    IF dist.kind = "CategoricalDistribution"
    THEN value \in Range(dist.choices)
    ELSE value.t = "float" /\ dist.low <= value.v /\ value.v <= dist.high

KeySet(d) == Range(DictKeys(d))

NumericalKeys == {cfg.search_space[i].key : i \in
                    {i \in DOMAIN cfg.search_space :
                        cfg.search_space[i].dist.kind \in _NUMERICAL_DISTRIBUTIONS}}

CategoricalKeys == KeySet(cfg.search_space) \ NumericalKeys

\* C1: whenever crossover() returns, every value of the returned child
\* satisfies the containment predicate of its parameter's distribution in
\* the search space, whatever the operator, the population, the draws and
\* the number of iterations before the return.
C1_ReturnedChildContained ==
    pc = "done" =>
        \A i \in DOMAIN child_params :
            /\ DictHas(cfg.search_space, child_params[i].key)
            /\ Satisfies(DictGet(cfg.search_space, child_params[i].key).dist,
                         child_params[i].value)

\* C1 witness: a child with a categorical and a numerical value is returned
\* by the second iteration, the first one's child having been rejected.
C1_Witness ==
    /\ pc = "done"
    /\ iters = 2
    /\ Len(categorical_search_space) > 0
    /\ Len(numerical_search_space) > 0
    /\ Len(child_params) = 2

\* C2: with n_parents <= population size, _select_parents raises nothing
\* and the list it returns has exactly n_parents elements, pairwise
\* distinct, all of the population.
C2_DistinctParents ==
    ValidSelection =>
        /\ raised # "ValueError: rng.choice"
        /\ Cardinality(Range(parents)) = Len(parents)
        /\ Range(parents) \subseteq Range(Population)
        /\ pc \in {"cross", "check", "done"} => Len(parents) = NParents

\* C2 witness: _select_parents has returned three parents out of a
\* population of three.
C2_Witness ==
    /\ pc = "cross"
    /\ NParents = 3
    /\ Len(Population) = 3
    /\ Len(parents) = 3

\* C3: in a tournament whose two candidates are A and B with A dominating
\* B, the parent returned is A, whichever of the two was drawn first.
C3_TournamentReturnsDominating ==
    tour # NoTour =>
        /\ dominates(tour.candidate0, tour.candidate1, cfg.directions)
              => tour.parent = tour.candidate0
        /\ dominates(tour.candidate1, tour.candidate0, cfg.directions)
              => tour.parent = tour.candidate1

\* C3 witness: the dominating candidate was drawn second and was returned.
C3_Witness ==
    /\ tour # NoTour
    /\ dominates(tour.candidate1, tour.candidate0, cfg.directions)
    /\ tour.parent = tour.candidate1

\* C4: with n_parents above the population size the call never leaves the
\* first selection of its first iteration except by the ValueError of
\* rng.choice: no list of parents is returned, no child is built or
\* returned, no second selection starts, and while the selection runs its
\* next step is enabled, the last one being the raise.
C4_TooManyParentsRaises ==
    ~ValidSelection =>
        /\ pc \in {"idle", "select", "error"}
        /\ iters <= 1
        /\ calls.select_parents <= 1
        /\ child_params = <<>>
        /\ Len(parents) <= Len(Population)
        /\ pc = "error" => raised = "ValueError: rng.choice" /\ iters = 1
        /\ pc = "select" => ENABLED (SelectParent \/ SelectParentRaises)
        /\ (pc = "select" /\ Len(parents) = Len(Population)) => ~ENABLED SelectParent

\* C4 witness: the operator asks for three parents, the population's two
\* were selected and the third selection raised.
C4_Witness ==
    /\ NParents = 3
    /\ Len(Population) = 2
    /\ Len(parents) = 2
    /\ pc = "error"
    /\ raised = "ValueError: rng.choice"

C6_OutsideOperatorNeverEnds ==
    (cfg.crossover.name = "outside" /\ NumericalKeys # {} /\ ValidSelection)
        => pc \notin {"done", "error"}

C8_PartitionTotalDisjoint ==
    pc # "idle" =>
        /\ KeySet(categorical_search_space) \cup KeySet(numerical_search_space)
              = KeySet(cfg.search_space)
        /\ KeySet(categorical_search_space) \cap KeySet(numerical_search_space) = {}
        /\ Len(categorical_search_space) + Len(numerical_search_space)
              = Len(cfg.search_space)
        /\ Range(categorical_search_space) \cup Range(numerical_search_space)
              = Range(cfg.search_space)
        /\ KeySet(numerical_search_space) = NumericalKeys

\* C8 witness: a search space of a categorical and a log-uniform parameter
\* has been partitioned.
C8_Witness ==
    /\ pc = "select"
    /\ Len(categorical_search_space) = 1
    /\ Len(numerical_search_space) = 1
    /\ numerical_search_space[1].dist.kind = "LogUniformDistribution"

\* C9 as stated: each categorical value of the child an iteration produces
\* equals the value of that parameter in the first or in the last selected
\* parent.
C9_CategoricalFromEndParents ==
    pc = "check" =>
        \A i \in DOMAIN child_params :
            child_params[i].key \in CategoricalKeys =>
                child_params[i].value \in
                    { params(parents[1])[child_params[i].key],
                      params(parents[Len(parents)])[child_params[i].key] }

\* C10: the child an iteration hands to the containment check, and so the
\* child returned, has exactly the keys of the search space, each once: the
\* categorical ones, then the numerical ones; its categorical values are
\* values (as numpy.array holds them) of the parents of the same iteration;
\* and when an iteration starts over, the selection starts from no parents.
C10_ChildKeysAreSearchSpaceKeys ==
    /\ pc \in {"check", "done"} =>
          /\ DictKeys(child_params)
                = DictKeys(categorical_search_space) \o DictKeys(numerical_search_space)
          /\ KeySet(child_params) = KeySet(cfg.search_space)
          /\ Len(child_params) = Len(cfg.search_space)
          /\ \A i \in DOMAIN child_params :
                child_params[i].key \in CategoricalKeys =>
                    \E r \in DOMAIN parents :
                        LET v == params(parents[r])[child_params[i].key]
                        IN  child_params[i].value \in {v, np_str(v)}
    /\ (pc = "select" /\ calls.select_parents < iters) => parents = <<>>

\* C10 witness: a child over a categorical and a numerical parameter is
\* returned after one rejected child.
C10_Witness ==
    /\ pc = "done"
    /\ iters = 2
    /\ CategoricalKeys # {}
    /\ NumericalKeys # {}
    /\ KeySet(child_params) = KeySet(cfg.search_space)


====
